---- MODULE Spec2Model ----
(***************************************************************************)
(* beatzero: the detection fusion and rate-decoupling pipeline of          *)
(* broker.py.                                                              *)
(*                                                                         *)
(* Numbers.  Python floats are modelled exactly: inputs are integers in a  *)
(* fixed unit (bpm in beats per minute, loudness in 1/1000, pitch          *)
(* confidence in 1/100, pitch value in Hz), quotients are rationals        *)
(* [n, d] in lowest terms.  Time is counted in clock units of 1/90 s, so   *)
(* that FRAME_TIME = 1/30 s is 3 units and one hop of 512 samples at       *)
(* 44100 Hz is about 1 unit.                                               *)
(***************************************************************************)
EXTENDS Integers, Sequences, FiniteSets, TLC

VARIABLES
    pc,               \* position of the main loop: "read", "check", or "fuse"/"fused"
    now,              \* time.time(), relative to the start of the loop
    next_frame,       \* broker.py:232
    buffer,           \* broker.py:235, deque of data packets
    volume_history,   \* broker.py:238, deque(maxlen)
    combined_packet,  \* broker.py:255, the last result of combine_packets
    appended,         \* history: every buffer.append, as [packet, time]
    flushes,          \* history: every call of combine_packets by the loop
    published,        \* the sink: every data handed to client.publish
    lastCheck,        \* history: the time of the previous deadline check
    overran,          \* history: some loop iteration lasted FRAME_TIME or longer
    axis,             \* which field the frames of this run vary in
    resources,        \* what the process holds of the sink and the frame source
    raised,           \* the exception that ended the main loop, or "none"
    gain_multiplier,  \* fft_publisher.py:89
    smoothed_band_energy,  \* fft_publisher.py:80
    data_packet,      \* fft_publisher.py:314, the last packet built
    twin,             \* a second run of fft_publisher.py's loop on the same frames
    cycles,           \* history: iterations of fft_publisher.py's loop
    quiet_cycles,     \* history: iterations that took the below-threshold branch
    viewer            \* visualizer.py: latest_data and the locals of its main loop

\* the state of the exit path of broker.py
exitVars == <<resources, raised>>

\* the state of fft_publisher.py
fftVars == <<gain_multiplier, smoothed_band_energy, data_packet, twin, cycles, quiet_cycles>>

vars == <<pc, now, next_frame, buffer, volume_history, combined_packet,
          appended, flushes, published, lastCheck, overran, axis,
          resources, raised, gain_multiplier, smoothed_band_energy,
          data_packet, twin, cycles, quiet_cycles, viewer>>

(***************************************************************************)
(* Bounds of the model.                                                    *)
(***************************************************************************)
MaxFrames == 3        \* frames read by one run of the main loop
MaxReadTime == 3      \* longest stream.read + analysis + sleep, in clock units
MaxFlushCost == 8     \* longest combine + publish, in clock units
MaxPackets == 4       \* longest packet list given to combine_packets
VolumeHistoryMaxlen == 3  \* stands for deque(maxlen=100), broker.py:238
MaxVolumeHistory == 2     \* stands for MAX_VOLUME_HISTORY = 100, fft_publisher.py:85
MaxQuietCycles == 1       \* cycles of fft_publisher.py below GAIN_THRESHOLD in one run
MaxCycles == 3            \* cycles of fft_publisher.py's loop in one run of two twins
MaxViewLoops == 2         \* iterations of visualizer.py's main loop in one run

(***************************************************************************)
(* Program constants.                                                      *)
(***************************************************************************)
FRAME_TIME == 3               \* 1/30 s in clock units of 1/90 s
MIN_VOLUME_THRESHOLD == 10    \* 0.01 in loudness units of 1/1000

ONSET_METHODS == <<"energy", "hfc", "complex", "phase", "specflux", "wphase", "mkl", "kl">>

Methods == {ONSET_METHODS[i] : i \in DOMAIN ONSET_METHODS}

(***************************************************************************)
(* Exact arithmetic.                                                       *)
(***************************************************************************)
RECURSIVE GCD(_, _)
GCD(a, b) == IF b = 0 THEN a ELSE GCD(b, a % b)

Abs(x) == IF x < 0 THEN -x ELSE x

Rat(n, d) == LET g == GCD(Abs(n), d) IN [n |-> n \div g, d |-> d \div g]

\* Sums and comparisons go through the common divisor of the denominators,
\* which keeps the intermediate products small.
RatAdd(x, y) ==
    LET g == GCD(x.d, y.d)
    IN Rat(x.n * (y.d \div g) + y.n * (x.d \div g), (x.d \div g) * y.d)

RatLess(x, y) ==
    LET g == GCD(x.d, y.d)
    IN x.n * (y.d \div g) < y.n * (x.d \div g)

RatSub(x, y) == RatAdd(x, [n |-> -y.n, d |-> y.d])

RatMul(x, y) == Rat(x.n * y.n, x.d * y.d)

\* x / y for y > 0
RatDiv(x, y) == Rat(x.n * y.d, x.d * y.n)

RatLeq(x, y) == ~RatLess(y, x)

RatMin(x, y) == IF RatLess(y, x) THEN y ELSE x

RatMax(x, y) == IF RatLess(x, y) THEN y ELSE x

Zero == Rat(0, 1)

One == Rat(1, 1)

RECURSIVE RatSum(_)
RatSum(s) == IF s = <<>> THEN Zero ELSE RatAdd(s[1], RatSum(Tail(s)))

RECURSIVE SeqMax(_)
SeqMax(s) == IF Len(s) = 1 THEN s[1]
             ELSE LET m == SeqMax(Tail(s)) IN IF s[1] >= m THEN s[1] ELSE m

Range(s) == {s[i] : i \in DOMAIN s}

(***************************************************************************)
(* Values of the runtime.                                                  *)
(***************************************************************************)
None == [none |-> TRUE]

TypeError == [raised |-> "TypeError"]

\* The truth value Python gives an object in `if combined_packet:`.
Truthy(x) == x # None /\ DOMAIN x # {}

\* list(s) of a set s: the elements in the iteration order of the runtime,
\* which the language leaves open; `order` enumerates the universe of the
\* elements in that order.
list_of_set(s, order) == SelectSeq(order, LAMBDA x : x \in s)

Enumerations(S) == {o \in [1..Cardinality(S) -> S] : Range(o) = S}

\* deque(maxlen=...).append: the oldest entry is dropped on overflow.
deque_append_unbounded(d, x, maxlen) == Append(d, x)

deque_append(d, x, maxlen) ==
    LET a == Append(d, x)
    IN IF Len(a) > maxlen THEN SubSeq(a, Len(a) - maxlen + 1, Len(a)) ELSE a

(***************************************************************************)
(* process_audio_buffer, broker.py:116-150.  The detectors are external:   *)
(* `packet` is the data they return for the signal.  The function's own    *)
(* effect is the append of the packet's volume to volume_history.          *)
(***************************************************************************)
process_audio_buffer_unrecorded(history, packet) ==
    history

process_audio_buffer(history, packet) ==
    deque_append(history, packet.volume, VolumeHistoryMaxlen)

(***************************************************************************)
(* combine_packets, broker.py:153-216.                                     *)
(***************************************************************************)
\* broker.py:160-163
combined_onset_all(packets, method) == \A i \in DOMAIN packets : packets[i].onsets[method]

combined_onset(packets, method) == \E i \in DOMAIN packets : packets[i].onsets[method]

\* broker.py:166
combined_tempo_beat_first(packets) == packets[1].tempo_beat

combined_tempo_beat(packets) == \E i \in DOMAIN packets : packets[i].tempo_beat

\* broker.py:169-173
normalized_bpm_values_from_120(packets) ==
    LET positive == SelectSeq(packets, LAMBDA p : p.bpm > 0)
    IN [i \in DOMAIN positive |->
           IF positive[i].bpm >= 120 THEN Rat(positive[i].bpm, 2)
           ELSE Rat(positive[i].bpm, 1)]

normalized_bpm_values(packets) ==
    LET positive == SelectSeq(packets, LAMBDA p : p.bpm > 0)
    IN [i \in DOMAIN positive |->
           IF positive[i].bpm > 120 THEN Rat(positive[i].bpm, 2)
           ELSE Rat(positive[i].bpm, 1)]

\* broker.py:175-178
combined_bpm_over_all(packets) ==
    LET total == RatSum(normalized_bpm_values(packets))
    IN Rat(total.n, total.d * Len(packets))

combined_bpm(packets) ==
    LET values == normalized_bpm_values(packets)
    IN IF values # <<>>
       THEN LET total == RatSum(values) IN Rat(total.n, total.d * Len(values))
       ELSE Zero

\* broker.py:182-194, the loop over the packets from `best`
RECURSIVE best_pitch_from(_, _)
best_pitch_from(packets, best) ==
    IF packets = <<>> THEN best
    ELSE LET pitch_value == packets[1].pitch.value
             pitch_confidence == packets[1].pitch.confidence
         IN IF pitch_confidence > best.confidence
            THEN best_pitch_from(Tail(packets),
                                 [value |-> pitch_value, confidence |-> pitch_confidence])
            ELSE best_pitch_from(Tail(packets), best)

\* broker.py:182-194
combined_pitch_first_confident(packets) ==
    LET confident == SelectSeq(packets, LAMBDA p : p.pitch.confidence > 0)
    IN IF confident = <<>> THEN [value |-> 0, confidence |-> 0] ELSE confident[1].pitch

combined_pitch(packets) == best_pitch_from(packets, [value |-> 0, confidence |-> 0])

\* broker.py:197-199
combined_notes_last(packets) ==
    IF packets = <<>> THEN {} ELSE Range(packets[Len(packets)].notes)

RECURSIVE combined_notes(_)
combined_notes(packets) ==
    IF packets = <<>> THEN {}
    ELSE Range(packets[1].notes) \cup combined_notes(Tail(packets))

\* broker.py:203-214
combined_volume_at_floor(packets, history) ==
    LET raw_volume == SeqMax([i \in DOMAIN packets |-> packets[i].volume])
        max_vol == SeqMax(Append(history, MIN_VOLUME_THRESHOLD))
    IN IF raw_volume <= MIN_VOLUME_THRESHOLD THEN Zero
       ELSE RatMin(One, RatMax(Zero, Rat(raw_volume, max_vol)))

combined_volume_unclamped(packets, history) ==
    LET raw_volume == SeqMax([i \in DOMAIN packets |-> packets[i].volume])
        max_vol == SeqMax(Append(history, MIN_VOLUME_THRESHOLD))
    IN IF raw_volume < MIN_VOLUME_THRESHOLD THEN Zero
       ELSE Rat(raw_volume, max_vol)

combined_volume(packets, history) ==
    LET raw_volume == SeqMax([i \in DOMAIN packets |-> packets[i].volume])
        max_vol == SeqMax(Append(history, MIN_VOLUME_THRESHOLD))
    IN IF raw_volume < MIN_VOLUME_THRESHOLD THEN Zero
       ELSE RatMin(One, RatMax(Zero, Rat(raw_volume, max_vol)))

combine_packets(packets, history, order) ==
    IF packets = <<>> THEN None
    ELSE IF history = <<>> THEN TypeError   \* max(MIN_VOLUME_THRESHOLD): one float, not iterable
    ELSE [m \in Methods |-> combined_onset(packets, m)]
         @@ [bpm |-> combined_bpm(packets),
             tempo_beat |-> combined_tempo_beat(packets),
             pitch |-> combined_pitch(packets),
             notes |-> list_of_set(combined_notes(packets), order),
             volume |-> combined_volume(packets, history)]

(***************************************************************************)
(* The frames the analyzers may return.  A data packet is what             *)
(* process_audio_buffer builds (broker.py:119-145).  Each run of the       *)
(* fusion varies the packets in one field (its axis) over a set that holds *)
(* the boundary values of that field; the "scenario" axis mixes all fields.*)
(***************************************************************************)
Packet(on, tempo, bpm, value, confidence, notes, volume) ==
    [onsets |-> [m \in Methods |-> m \in on], tempo_beat |-> tempo, bpm |-> bpm,
     pitch |-> [value |-> value, confidence |-> confidence],
     notes |-> notes, volume |-> volume]

\* The iteration orders of the notes that occur in a pool of packets.
Orders(pool) == Enumerations(UNION {Range(p.notes) : p \in pool})

ScenarioA == Packet({"energy"}, FALSE, 0, 0, 0, <<>>, 20)

ScenarioB == Packet({}, FALSE, 128, 440, 60, <<69>>, 50)

ScenarioC == Packet({}, FALSE, 130, 440, 90, <<69, 81>>, 30)

Axes == {"onsets", "tempo", "bpm", "pitch", "notes", "volume", "scenario"}

PacketsOf(a) ==
    CASE a = "onsets" ->
           {Packet(on, FALSE, 0, 0, 0, <<>>, 20) :
               on \in {{}, {"hfc", "kl"}} \cup {{m} : m \in Methods}}
      [] a = "tempo" ->
           {Packet({}, t, 0, 0, 0, <<>>, 20) : t \in BOOLEAN}
      [] a = "bpm" ->
           {Packet({}, FALSE, b, 0, 0, <<>>, 20) : b \in {0, 120, 125, 130, 140, 250}}
      [] a = "pitch" ->
           {Packet({}, FALSE, 0, v, c, <<>>, 20) : v \in {0, 220, 440}, c \in {0, 60, 90}}
      [] a = "notes" ->
           {Packet({}, FALSE, 0, 0, 0, n, 20) :
               n \in {<<>>, <<69>>, <<69, 81>>, <<81, 60>>, <<60, 60>>}}
      [] a = "volume" ->
           {Packet({}, FALSE, 0, 0, 0, <<>>, v) : v \in {0, 5, 10, 500, 1000}}
      [] a = "scenario" -> {ScenarioA, ScenarioB, ScenarioC}

\* volume_history as earlier frames left it when the run starts.
PriorHistories(a) == IF a = "volume" THEN {<<>>, <<5>>, <<1000>>} ELSE {<<>>}

\* The frames of the main loop's runs.
FramePool == {ScenarioA, ScenarioB}

ReadTimes == 1..MaxReadTime

FlushCosts == {0, 1, MaxFlushCost}

(***************************************************************************)
(* fft_publisher.py: constants and start values.  Loudness is in 1/1000    *)
(* as above, gains and band energies are rationals.                        *)
(***************************************************************************)
GAIN_THRESHOLD == 30          \* 0.03 in loudness units of 1/1000

MAX_GAIN == Rat(4, 5)

MIN_GAIN == Rat(1, 5)

smoothing_factor_above_one == Rat(6, 5)

smoothing_factor == Rat(1, 5)

\* fft_publisher.py:237
max_change == Rat(1, 100)

\* fft_publisher.py:203-205: list.append, then pop(0) beyond the capacity
fft_history_append(history, volume) == deque_append(history, volume, MaxVolumeHistory)

RECURSIVE IntSum(_)
IntSum(s) == IF s = <<>> THEN 0 ELSE s[1] + IntSum(Tail(s))

\* fft_publisher.py:208
avg_volume_of(history) == Rat(IntSum(history), Len(history))

\* fft_publisher.py:213
BelowThreshold(avg_volume) == RatLess(avg_volume, Rat(GAIN_THRESHOLD, 1))

\* fft_publisher.py:215-224, the branch below GAIN_THRESHOLD
low_target_gain(avg_volume) ==
    RatAdd(MIN_GAIN, RatMul(RatDiv(avg_volume, Rat(GAIN_THRESHOLD, 1)),
                            RatSub(MAX_GAIN, MIN_GAIN)))

reduction_factor(avg_volume) ==
    IF RatLess(avg_volume, RatMul(Rat(GAIN_THRESHOLD, 1), Rat(1, 2)))
    THEN Rat(80, 100) ELSE Rat(95, 100)

smoothed_gain(gain, avg_volume) ==
    LET target_gain == low_target_gain(avg_volume)
        r == reduction_factor(avg_volume)
    IN RatAdd(RatMul(r, gain), RatMul(RatSub(One, r), target_gain))

\* fft_publisher.py:231-234, the branch at or above GAIN_THRESHOLD
volume_factor(avg_volume) ==
    RatMin(One, RatDiv(RatSub(avg_volume, Rat(GAIN_THRESHOLD, 1)),
                       RatMul(Rat(GAIN_THRESHOLD, 1), Rat(2, 1))))

high_target_gain(avg_volume) ==
    RatAdd(MIN_GAIN, RatMul(RatSub(MAX_GAIN, MIN_GAIN),
                            RatAdd(Rat(1, 2), RatMul(volume_factor(avg_volume), Rat(1, 2)))))

\* fft_publisher.py:213-234: the target of either branch
target_gain_of(avg_volume) ==
    IF BelowThreshold(avg_volume) THEN low_target_gain(avg_volume)
    ELSE high_target_gain(avg_volume)

\* fft_publisher.py:238-241
new_gain_unlimited(target_gain, old_gain) == target_gain

new_gain(target_gain, old_gain) ==
    IF RatLess(old_gain, target_gain)
    THEN RatMin(target_gain, RatAdd(old_gain, max_change))
    ELSE RatMax(target_gain, RatSub(old_gain, max_change))

\* fft_publisher.py:244
limited_gain_rising(gain, avg_volume) == RatAdd(gain, max_change)

limited_gain(gain, avg_volume) ==
    RatMax(MIN_GAIN, RatMin(MAX_GAIN, new_gain(high_target_gain(avg_volume), gain)))

\* fft_publisher.py:213-244: gain_multiplier after one cycle
adjusted_gain(gain, avg_volume) ==
    IF BelowThreshold(avg_volume) THEN smoothed_gain(gain, avg_volume)
    ELSE limited_gain(gain, avg_volume)

\* The indices of FREQ_BANDS, fft_publisher.py:24-33; the packet's flags read
\* bass (index 0) and high (index 6).
Bands == 0..7

\* fft_publisher.py:80-89
\* visualizer.py:20, 257-263 and pygame's clock at the first iteration:
\* no message yet, the default bpm, the blinker off and due at once.
ViewerStart ==
    [latest_data |-> None, received |-> 0, bpm |-> Rat(58, 1),
     blink_state |-> FALSE, next_transition_time |-> Zero,
     current_time |-> 0, loops |-> 0, raised |-> "none"]

FftStart ==
    /\ gain_multiplier = Rat(1, 2)
    /\ smoothed_band_energy = [b \in Bands |-> Zero]
    /\ data_packet = None
    /\ cycles = 0
    /\ quiet_cycles = 0

\* broker.py:34-46, 87-88: the client is connected and its network loop
\* started, the stream is open and active, PyAudio is initialized.
Resources == {"client.loop", "client.connection", "stream.active", "stream", "p"}

(***************************************************************************)
(* The main loop, broker.py:230-268.                                       *)
(***************************************************************************)
\* broker.py:232-238
Init ==
    /\ pc = "read"
    /\ now = 0
    /\ next_frame = 0
    /\ buffer = <<>>
    /\ volume_history = <<>>
    /\ combined_packet = None
    /\ appended = <<>>
    /\ flushes = <<>>
    /\ published = <<>>
    /\ lastCheck = 0
    /\ overran = FALSE
    /\ axis = "loop"
    /\ resources = Resources
    /\ raised = "none"
    /\ viewer = ViewerStart
    /\ FftStart
    /\ twin = None

\* What one call of publish_data meets: client.publish returns status 0,
\* returns another status, or json.dumps / client.publish raises.
PublishOutcomes == {"ok", "status", "exception"}

\* publish_data, broker.py:98-113.  The sink has the message when
\* client.publish accepted it; the other outcomes are printed and answered
\* with False, which the caller (line 262) drops.
publish_data_retried(sink, data, outcome) == Append(sink, data)

publish_data(sink, data, outcome) == IF outcome = "ok" THEN Append(sink, data) ELSE sink

\* broker.py:242-249 (and the sleep of the previous iteration, line 268):
\* the read blocks for dr, the packet is analyzed and appended; line 252
\* then takes current_time.
ReadFrame(packet, dr) ==
    /\ pc = "read"
    /\ Len(appended) < MaxFrames
    /\ now' = now + dr
    /\ volume_history' = process_audio_buffer(volume_history, packet)
    /\ buffer' = Append(buffer, packet)
    /\ appended' = Append(appended, [packet |-> packet, time |-> now'])
    /\ overran' = (overran \/ now' - lastCheck >= FRAME_TIME)
    /\ lastCheck' = now'
    /\ pc' = "check"
    /\ UNCHANGED <<next_frame, combined_packet, flushes, published, axis, exitVars, fftVars, viewer>>

\* broker.py:253: the flush test, current_time >= next_frame
deadline_always_due(current_time, deadline) == TRUE

deadline_due(current_time, deadline) == current_time >= deadline

\* broker.py:265
advance_deadline_from_now(deadline, current_time) == current_time + FRAME_TIME

advance_deadline(deadline, current_time) == deadline + FRAME_TIME

\* broker.py:258
not_cleared(b) == b

cleared(b) == <<>>

\* broker.py:253-265 when current_time >= next_frame; combine and publish
\* take `cost`, the call of publish_data meets `outcome`.
Flush(order, cost, outcome) ==
    /\ pc = "check"
    /\ deadline_due(now, next_frame)
    /\ combined_packet' = combine_packets(buffer, volume_history, order)
    /\ buffer' = cleared(buffer)
    /\ published' = IF Truthy(combined_packet')
                    THEN publish_data(published, combined_packet', outcome)
                    ELSE published
    /\ flushes' = Append(flushes, [packets |-> buffer, time |-> now,
                                   deadline |-> next_frame, cost |-> cost,
                                   history |-> volume_history,
                                   data |-> combined_packet',
                                   sent |-> Truthy(combined_packet'),
                                   outcome |-> outcome])
    /\ next_frame' = advance_deadline(next_frame, now)
    /\ now' = now + cost
    /\ pc' = "read"
    /\ UNCHANGED <<volume_history, appended, lastCheck, overran, axis, exitVars, fftVars, viewer>>

\* broker.py:253 when current_time < next_frame: nothing but the sleep.
NoFlush ==
    /\ pc = "check"
    /\ ~deadline_due(now, next_frame)
    /\ pc' = "read"
    /\ UNCHANGED <<now, next_frame, buffer, volume_history, combined_packet,
                   appended, flushes, published, lastCheck, overran, axis, exitVars, fftVars, viewer>>

Next ==
    \/ \E packet \in FramePool, dr \in ReadTimes : ReadFrame(packet, dr)
    \/ \E order \in Orders(FramePool), cost \in FlushCosts : Flush(order, cost, "ok")
    \/ NoFlush

Spec == Init /\ [][Next]_vars

(***************************************************************************)
(* The main loop with its exits, broker.py:230-279: a publish may fail,    *)
(* and the loop may be left by an exception.  Only KeyboardInterrupt has   *)
(* a handler (line 270); whatever else is raised inside the `try` passes   *)
(* through `finally` and ends the process with a traceback.                *)
(***************************************************************************)
\* broker.py:272-278
cleanup_sink_only(held) == held \ {"client.loop", "client.connection"}

cleanup(held) ==
    held \ {"client.loop", "client.connection", "stream.active", "stream", "p"}

\* The loop is left with `exception`: lines 270-279.
ExitLoop(exception) ==
    /\ raised' = exception
    /\ resources' = cleanup(resources)
    /\ pc' = IF exception = "KeyboardInterrupt" THEN "stopped" ELSE "crashed"
    /\ UNCHANGED <<now, next_frame, buffer, volume_history, combined_packet,
                   appended, flushes, published, lastCheck, overran, axis, fftVars,
                   viewer>>

\* Ctrl+C while the loop reads (line 242) or sleeps (line 268), or between
\* the append and the deadline check.
Interrupt ==
    /\ pc \in {"read", "check"}
    /\ ExitLoop("KeyboardInterrupt")

\* broker.py:242: stream.read raises (device lost, stream closed).
ReadRaises ==
    /\ pc = "read"
    /\ ExitLoop("OSError")

\* broker.py:246: process_audio_buffer raises for the signal just read.
AnalyzerRaises ==
    /\ pc = "read"
    /\ ExitLoop("AnalyzerError")

ExitNext ==
    \/ \E packet \in FramePool, dr \in ReadTimes : ReadFrame(packet, dr)
    \/ \E order \in Orders(FramePool), outcome \in PublishOutcomes : Flush(order, 0, outcome)
    \/ NoFlush
    \/ Interrupt
    \/ ReadRaises
    \/ AnalyzerRaises

SpecExit == Init /\ [][ExitNext]_vars

(***************************************************************************)
(* combine_packets on its own: the packets are analyzed and buffered as    *)
(* the loop does (lines 246-249), then combined once (line 255).           *)
(***************************************************************************)
FuseInit ==
    /\ pc = "fuse"
    /\ axis \in Axes
    /\ volume_history \in PriorHistories(axis)
    /\ buffer = <<>>
    /\ combined_packet = None
    /\ now = 0
    /\ next_frame = 0
    /\ appended = <<>>
    /\ flushes = <<>>
    /\ published = <<>>
    /\ lastCheck = 0
    /\ overran = FALSE
    /\ resources = Resources
    /\ raised = "none"
    /\ viewer = ViewerStart
    /\ FftStart
    /\ twin = None

FuseAnalyze(packet) ==
    /\ pc = "fuse"
    /\ Len(buffer) < MaxPackets
    /\ volume_history' = process_audio_buffer(volume_history, packet)
    /\ buffer' = Append(buffer, packet)
    /\ UNCHANGED <<pc, now, next_frame, combined_packet, appended, flushes,
                   published, lastCheck, overran, axis, exitVars, fftVars, viewer>>

FuseCombine(order) ==
    /\ pc = "fuse"
    /\ combined_packet' = combine_packets(buffer, volume_history, order)
    /\ published' = IF Truthy(combined_packet')
                    THEN publish_data(published, combined_packet', "ok")
                    ELSE published
    /\ pc' = "fused"
    /\ UNCHANGED <<now, next_frame, buffer, volume_history, appended, flushes,
                   lastCheck, overran, axis, exitVars, fftVars, viewer>>

FuseNext ==
    \/ \E packet \in PacketsOf(axis) : FuseAnalyze(packet)
    \/ \E order \in Orders(PacketsOf(axis)) : FuseCombine(order)

SpecFuse == FuseInit /\ [][FuseNext]_vars

(***************************************************************************)
(* fft_publisher.py, the gain controller on its own: lines 199-244 of the  *)
(* loop, which read and write volume_history and gain_multiplier only.     *)
(* The frame's loudness is the input.  A run takes any number of cycles at *)
(* or above GAIN_THRESHOLD (they move the gain on a finite grid) and up to *)
(* MaxQuietCycles below it.                                                *)
(***************************************************************************)
\* the variables of broker.py that fft_publisher.py does not have
loopVars == <<now, next_frame, buffer, combined_packet, appended, flushes,
              published, lastCheck, overran, exitVars, viewer>>

LoopIdle ==
    /\ now = 0
    /\ next_frame = 0
    /\ buffer = <<>>
    /\ combined_packet = None
    /\ appended = <<>>
    /\ flushes = <<>>
    /\ published = <<>>
    /\ lastCheck = 0
    /\ overran = FALSE
    /\ resources = Resources
    /\ raised = "none"
    /\ viewer = ViewerStart

\* rms loudness of a frame in 1/1000: silence, just above GAIN_THRESHOLD,
\* far beyond full scale
GainVolumes == {0, 40, 100000}

GainInit ==
    /\ pc = "gain"
    /\ axis = "gain"
    /\ volume_history = <<>>
    /\ FftStart
    /\ twin = None
    /\ LoopIdle

GainCycle(volume) ==
    /\ pc = "gain"
    /\ volume_history' = fft_history_append(volume_history, volume)
    /\ LET avg_volume == avg_volume_of(volume_history')
       IN /\ BelowThreshold(avg_volume) => quiet_cycles < MaxQuietCycles
          /\ gain_multiplier' = adjusted_gain(gain_multiplier, avg_volume)
          /\ quiet_cycles' = IF BelowThreshold(avg_volume)
                             THEN quiet_cycles + 1 ELSE quiet_cycles
    /\ UNCHANGED <<pc, axis, smoothed_band_energy, data_packet, twin, cycles, loopVars>>

GainNext == \E volume \in GainVolumes : GainCycle(volume)

SpecGain == GainInit /\ [][GainNext]_vars

(***************************************************************************)
(* fft_publisher.py, the whole loop body (lines 196-331), run twice on the *)
(* same frames: once from the start values of the file and once, as        *)
(* `twin`, from another gain_multiplier.  A frame is what the signal       *)
(* yields outside this file: its rms loudness, the band energies           *)
(* calculate_band_energy returns for bands 0 and 6, and what the aubio     *)
(* detectors answer.  The timestamp is the clock's and left out.           *)
(***************************************************************************)
\* raw_energies holds the mean magnitude of the spectrum in each band
\* (fft_publisher.py:130-139): `bass` in band 0, `high` in band 6, `mid` in
\* the others.
FftFrame(volume, bass, mid, high, energy_beat, hfc_beat) ==
    [volume |-> volume,
     raw_energies |-> [b \in Bands |-> IF b = 0 THEN bass ELSE IF b = 6 THEN high ELSE mid],
     onsets |-> [energy |-> [is_beat |-> energy_beat, descriptor |-> volume],
                 hfc |-> [is_beat |-> hfc_beat, descriptor |-> high]],
     tempo |-> [is_beat |-> energy_beat, bpm |-> 120],
     note_detected |-> hfc_beat]

\* silence, a kick, a hi-hat, and a frame with the same magnitude in all bands
FftFrames ==
    {FftFrame(0, 0, 0, 0, FALSE, FALSE),
     FftFrame(90, 8, 1, 0, TRUE, FALSE),
     FftFrame(40, 0, 1, 5, FALSE, TRUE),
     FftFrame(20, 2, 2, 2, TRUE, TRUE)}

\* max of a non-empty set of rationals
RatSetMax(S) == CHOOSE x \in S : \A y \in S : RatLeq(y, x)

\* calculate_band_energy, fft_publisher.py:141-172: the bass is halved both
\* for the maximum and in the result, the scale puts the maximum at 0.8.
calculate_band_energy(raw_energies) ==
    LET attenuated == [b \in Bands |-> IF b = 0 THEN Rat(raw_energies[b], 2)
                                      ELSE Rat(raw_energies[b], 1)]
        max_energy == RatSetMax({attenuated[b] : b \in Bands})
        adaptive_scale == IF RatLess(Zero, max_energy)
                          THEN RatDiv(Rat(8, 10), max_energy) ELSE One
    IN [b \in Bands |-> RatMin(One, RatMul(attenuated[b], adaptive_scale))]

\* fft_publisher.py:263-264: the gain multiplier is not applied to the data
applied_gain_scaled(band_energy, gain) ==
    [b \in Bands |-> RatMin(One, RatMul(band_energy[b], gain))]

applied_gain(band_energy, gain) == band_energy

\* fft_publisher.py:267-269
smoothed(previous, band_energy) ==
    [b \in Bands |-> RatAdd(RatMul(smoothing_factor, previous[b]),
                            RatMul(RatSub(One, smoothing_factor), band_energy[b]))]

\* One iteration of the loop, lines 196-331: the state of the run after it
\* and the packet it hands to publish_data.
fft_cycle(run, frame) ==
    LET history == fft_history_append(run.volume_history, frame.volume)
        avg_volume == avg_volume_of(history)
        gain == adjusted_gain(run.gain_multiplier, avg_volume)
        band_energy == calculate_band_energy(frame.raw_energies)
        energy == smoothed(run.smoothed_band_energy, applied_gain(band_energy, gain))
    IN [volume_history |-> history,
        gain_multiplier |-> gain,
        smoothed_band_energy |-> energy,
        data_packet |->
            [onsets |-> frame.onsets,
             tempo |-> frame.tempo,
             note_detected |-> frame.note_detected,
             volume |-> frame.volume,
             avg_volume |-> avg_volume,
             gain_multiplier |-> gain,
             kick_detected |-> frame.onsets.energy.is_beat /\ RatLess(Rat(4, 10), energy[0]),
             hihat_detected |-> RatLess(Rat(7, 10), energy[6]) /\ frame.onsets.hfc.is_beat,
             band_energy |-> energy]]

\* the gains the twin run starts with
TwinGains == {MIN_GAIN, MAX_GAIN}

TwinInit ==
    /\ pc = "twin"
    /\ axis = "twin"
    /\ volume_history = <<>>
    /\ FftStart
    /\ \E gain \in TwinGains :
           twin = [volume_history |-> <<>>, gain_multiplier |-> gain,
                   smoothed_band_energy |-> [b \in Bands |-> Zero],
                   data_packet |-> None]
    /\ LoopIdle

TwinCycle(frame) ==
    /\ pc = "twin"
    /\ cycles < MaxCycles
    /\ LET run == fft_cycle([volume_history |-> volume_history,
                             gain_multiplier |-> gain_multiplier,
                             smoothed_band_energy |-> smoothed_band_energy], frame)
       IN /\ volume_history' = run.volume_history
          /\ gain_multiplier' = run.gain_multiplier
          /\ smoothed_band_energy' = run.smoothed_band_energy
          /\ data_packet' = run.data_packet
    /\ twin' = fft_cycle(twin, frame)
    /\ cycles' = cycles + 1
    /\ UNCHANGED <<pc, axis, quiet_cycles, loopVars>>

TwinNext == \E frame \in FftFrames : TwinCycle(frame)

SpecTwin == TwinInit /\ [][TwinNext]_vars

(***************************************************************************)
(* The runs of both programs that keep a loudness history: the main loop   *)
(* of broker.py, combine_packets after a history left by earlier frames,   *)
(* and the loop of fft_publisher.py.  A run belongs to one of them.        *)
(***************************************************************************)
HistoryInit == Init \/ FuseInit \/ TwinInit

HistoryNext ==
    \/ axis = "loop" /\ Next
    \/ axis \in Axes /\ FuseNext
    \/ axis = "twin" /\ TwinNext

SpecHistory == HistoryInit /\ [][HistoryNext]_vars

(***************************************************************************)
(* visualizer.py beside the main loop of broker.py.  The broker publishes  *)
(* json.dumps(data) on beatzero/music_detection (broker.py:101-102); the   *)
(* MQTT client thread of the visualizer calls on_message for a delivered   *)
(* message, and the main loop reads latest_data once per displayed frame.  *)
(* Messages arrive in the order of publication and may be lost (QoS 0).    *)
(* Times of the visualizer are pygame ticks in milliseconds.               *)
(***************************************************************************)
\* broker.py:101: the payload of a summary.  Booleans, lists, strings and
\* floats (by their shortest repr) are written as JSON values.
json_dumps(data) == [json |-> data]

\* visualizer.py:38: the dictionary of a payload
json_loads(payload) == payload.json

\* the time one displayed frame takes: clock.tick(FPS) with FPS = 30 waits
\* for the rest of 33 ms; a stalled frame takes longer
ViewTicks == {33, 600}

\* visualizer.py:34-40
on_message(i) ==
    /\ viewer.raised = "none"
    /\ i > viewer.received
    /\ i <= Len(published)
    /\ viewer' = [viewer EXCEPT !.latest_data = json_loads(json_dumps(published[i])),
                                !.received = i]
    /\ UNCHANGED <<pc, now, next_frame, buffer, volume_history, combined_packet,
                   appended, flushes, published, lastCheck, overran, axis,
                   exitVars, fftVars>>

\* visualizer.py:301-304
updated_bpm(latest_data, bpm) ==
    IF Truthy(latest_data) /\ "bpm" \in DOMAIN latest_data THEN latest_data.bpm ELSE bpm

\* visualizer.py:330-337, for a bpm other than zero
blink_transition(view, bpm) ==
    LET ms_per_beat == RatDiv(Rat(60000, 1), bpm)
        ms_per_transition == RatDiv(ms_per_beat, Rat(2, 1))
    IN [view EXCEPT !.blink_state = ~view.blink_state,
                    !.next_transition_time =
                        RatAdd(Rat(view.current_time, 1), ms_per_transition)]

\* visualizer.py:288-433: one iteration of the main loop.  60000 / bpm
\* raises ZeroDivisionError for bpm 0.0; nothing in main catches it.
view_loop(tick) ==
    /\ viewer.raised = "none"
    /\ viewer.loops < MaxViewLoops
    /\ LET bpm == updated_bpm(viewer.latest_data, viewer.bpm)
           view == [viewer EXCEPT !.bpm = bpm, !.loops = @ + 1]
           due == RatLeq(viewer.next_transition_time, Rat(viewer.current_time, 1))
       IN viewer' = IF due /\ bpm.n = 0
                    THEN [view EXCEPT !.raised = "ZeroDivisionError"]
                    ELSE LET shown == IF due THEN blink_transition(view, bpm) ELSE view
                         IN [shown EXCEPT !.current_time = @ + tick]
    /\ UNCHANGED <<pc, now, next_frame, buffer, volume_history, combined_packet,
                   appended, flushes, published, lastCheck, overran, axis,
                   exitVars, fftVars>>

ViewNext ==
    \/ Next
    \/ \E i \in 1..MaxFrames : on_message(i)
    \/ \E tick \in ViewTicks : view_loop(tick)

SpecView == Init /\ [][ViewNext]_vars

(***************************************************************************)
(* Properties.                                                             *)
(***************************************************************************)
RECURSIVE Flatten(_)
Flatten(lists) == IF lists = <<>> THEN <<>> ELSE lists[1] \o Flatten(Tail(lists))

RECURSIVE SumOver(_, _)
SumOver(S, f) ==
    IF S = {} THEN 0 ELSE LET x == CHOOSE y \in S : TRUE IN f[x] + SumOver(S \ {x}, f)

FlushCount == Len(flushes)

\* Some iteration of the loop, the running one included, lasted FRAME_TIME or longer.
Overran == overran \/ now - lastCheck >= FRAME_TIME

\* The frames appended after time `from` and not after time `to`.
AppendedIn(from, to) == {j \in DOMAIN appended : from < appended[j].time /\ appended[j].time <= to}

\* C1: the packet lists handed to combine_packets, concatenated and followed
\* by what is still buffered, are exactly the frames appended, each once and
\* in append order; right after a flush the buffer is empty.
C1_NoLossNoDuplication ==
    /\ Flatten([i \in DOMAIN flushes |-> flushes[i].packets]) \o buffer
         = [j \in DOMAIN appended |-> appended[j].packet]
    /\ (pc = "read" /\ flushes # <<>> /\ flushes[FlushCount].time = lastCheck) => buffer = <<>>

C1_Witness ==
    /\ FlushCount >= 2
    /\ \E i \in DOMAIN flushes : Len(flushes[i].packets) >= 2
    /\ \E i, j \in DOMAIN appended : appended[i].packet # appended[j].packet
    /\ pc = "read" /\ buffer = <<>> /\ flushes[FlushCount].time = lastCheck

\* C2 as stated: every deadline is the previous deadline plus FRAME_TIME, and
\* whenever the cost per flush is below FRAME_TIME on average, the number of
\* flushes differs from floor(now / FRAME_TIME) by at most 1.
C2_FlushCountWithinOne ==
    /\ next_frame = FlushCount * FRAME_TIME
    /\ SumOver(DOMAIN flushes, [i \in DOMAIN flushes |-> flushes[i].cost]) < FlushCount * FRAME_TIME
         => Abs(FlushCount - now \div FRAME_TIME) <= 1

\* C2 as amended: every deadline is the previous deadline plus FRAME_TIME
\* (never the time of the flush plus FRAME_TIME); the number of flushes never
\* exceeds floor(now / FRAME_TIME) + 1; and as long as every iteration of the
\* loop has taken less than FRAME_TIME it differs from floor(now / FRAME_TIME)
\* by at most 1.
C2_FlushCountWithoutOverrun ==
    /\ next_frame = FlushCount * FRAME_TIME
    /\ \A i \in DOMAIN flushes : flushes[i].deadline = (i - 1) * FRAME_TIME
    /\ FlushCount <= now \div FRAME_TIME + 1
    /\ ~Overran => Abs(FlushCount - now \div FRAME_TIME) <= 1

C2_Witness ==
    /\ ~Overran
    /\ FlushCount >= 2
    /\ Len(appended) = MaxFrames
    /\ \E i \in DOMAIN flushes : flushes[i].time > flushes[i].deadline
    /\ \E i \in DOMAIN flushes : flushes[i].cost > 0

\* Flush i was handed exactly the frames appended since the flush before it.
CoversAccumulated(i) ==
    LET since == IF i = 1 THEN -1 ELSE flushes[i - 1].time
        earlier == Cardinality(AppendedIn(-1, since))
        which == AppendedIn(since, flushes[i].time)
    IN flushes[i].packets = [k \in 1..Cardinality(which) |-> appended[earlier + k].packet]

\* C3: when two or more periods elapse between two consecutive flushes, the
\* later one covers all the frames accumulated since the earlier one, and no
\* flush after it is for a tick that had already passed when it was made (a
\* missed tick gets no flush of its own).
C3_NoFlushForMissedTick ==
    \A i \in DOMAIN flushes :
        (i > 1 /\ flushes[i].time - flushes[i - 1].time >= 2 * FRAME_TIME) =>
            /\ CoversAccumulated(i)
            /\ \A k \in DOMAIN flushes : k > i => flushes[k].deadline > flushes[i].time

\* C4: a tick between whose deadline and the deadline before it no frame was
\* appended publishes no summary, and no summary is published for an empty
\* packet list.
C4_EmptyTickSuppressed ==
    \A i \in DOMAIN flushes :
        /\ flushes[i].packets = <<>> => ~flushes[i].sent
        /\ (i > 1 /\ AppendedIn(flushes[i - 1].deadline, flushes[i].deadline) = {})
              => ~flushes[i].sent

(***************************************************************************)
(* Properties of combine_packets, stated of the call made by FuseCombine.  *)
(***************************************************************************)
Fused == pc = "fused" /\ buffer # <<>>

BpmList == [i \in DOMAIN buffer |-> buffer[i].bpm]

\* C5: the fused bpm is the mean, over the frames with bpm > 0, of bpm / 2
\* when bpm > 120 and of bpm otherwise (halved once); it is 0 when no frame
\* has bpm > 0.  The sum is taken in half beats per minute.
C5_BpmMeanOfNormalized ==
    Fused =>
        LET S == {i \in DOMAIN buffer : buffer[i].bpm > 0}
            halves == [i \in DOMAIN buffer |->
                          IF buffer[i].bpm > 120 THEN buffer[i].bpm ELSE 2 * buffer[i].bpm]
        IN IF S = {} THEN combined_packet.bpm.n = 0
           ELSE combined_packet.bpm.n * 2 * Cardinality(S)
                   = combined_packet.bpm.d * SumOver(S, halves)

C5_Witness ==
    /\ Fused
    /\ \E i, j, k \in DOMAIN buffer :
          buffer[i].bpm = 0 /\ buffer[j].bpm = 250 /\ buffer[k].bpm = 120
    /\ combined_packet.bpm = Rat(245, 2)

\* C6 as stated: for bpm = [130, 140, 0, 125] the normalized values are
\* [65, 70, 125] and the fused bpm is their mean 260/3, which is 86.67 to two
\* decimals.
C6_BpmExample ==
    (Fused /\ BpmList = <<130, 140, 0, 125>>) =>
        /\ normalized_bpm_values(buffer) = <<Rat(65, 1), Rat(70, 1), Rat(125, 1)>>
        /\ combined_packet.bpm = Rat(260, 3)
        /\ 8666 * combined_packet.bpm.d < 100 * combined_packet.bpm.n
        /\ 100 * combined_packet.bpm.n < 8667 * combined_packet.bpm.d

\* C6 as amended: for bpm = [130, 140, 0, 125] the normalized values are
\* [65, 70, 62.5], since 125 exceeds 120 and is halved like 130 and 140, and
\* the fused bpm is their mean 395/6, which is 65.83 to two decimals.
C6_BpmExampleHalved ==
    (Fused /\ BpmList = <<130, 140, 0, 125>>) =>
        /\ normalized_bpm_values(buffer) = <<Rat(65, 1), Rat(70, 1), Rat(125, 2)>>
        /\ combined_packet.bpm = Rat(395, 6)
        /\ 6583 * combined_packet.bpm.d < 100 * combined_packet.bpm.n
        /\ 100 * combined_packet.bpm.n < 6584 * combined_packet.bpm.d

C6_Witness == Fused /\ BpmList = <<130, 140, 0, 125>> /\ combined_packet.bpm = Rat(395, 6)

\* C7: the fused pitch is the pitch of the earliest frame among those with
\* the greatest confidence of the buffer, whatever the confidences are.
C7_PitchOfEarliestMaxConfidence ==
    Fused =>
        LET best == {i \in DOMAIN buffer :
                        \A j \in DOMAIN buffer :
                            buffer[j].pitch.confidence <= buffer[i].pitch.confidence}
            first == CHOOSE i \in best : \A j \in best : i <= j
        IN combined_packet.pitch = buffer[first].pitch

\* C8: a fused onset flag is true exactly when some buffered frame has the
\* flag of that method true, and so is the fused tempo_beat.
C8_FlagsAreOr ==
    Fused =>
        /\ \A m \in Methods :
              combined_packet[m] <=> Cardinality({i \in DOMAIN buffer : buffer[i].onsets[m]}) >= 1
        /\ combined_packet.tempo_beat
              <=> Cardinality({i \in DOMAIN buffer : buffer[i].tempo_beat}) >= 1

C8_Witness ==
    /\ Fused
    /\ Len(buffer) >= 3
    /\ Cardinality({i \in DOMAIN buffer : buffer[i].onsets["energy"]}) = 1
    /\ combined_packet["energy"]
    /\ ~combined_packet["hfc"]

\* C9: the fused notes hold every note of every buffered frame, nothing
\* else, and each value once.
C9_NotesAreUnion ==
    Fused =>
        /\ Range(combined_packet.notes) = UNION {Range(buffer[i].notes) : i \in DOMAIN buffer}
        /\ \A a, b \in DOMAIN combined_packet.notes :
              combined_packet.notes[a] = combined_packet.notes[b] => a = b

C9_Witness ==
    /\ Fused
    /\ \E i, j, k \in DOMAIN buffer :
          buffer[i].notes = <<69, 81>> /\ buffer[j].notes = <<81, 60>> /\ buffer[k].notes = <<60, 60>>
    /\ Len(combined_packet.notes) = 3

\* C10: with peak the greatest volume of the buffered frames, the fused
\* volume is 0 when peak < MIN_VOLUME_THRESHOLD and otherwise
\* peak / max(max of history, MIN_VOLUME_THRESHOLD) clamped to [0, 1]; a peak
\* of 0.5 under a history whose maximum is 1.0 gives 0.5.
C10_VolumeNormalized ==
    Fused =>
        LET volumes == {buffer[i].volume : i \in DOMAIN buffer}
            peak == CHOOSE v \in volumes : \A w \in volumes : w <= v
            levels == Range(volume_history) \cup {MIN_VOLUME_THRESHOLD}
            floor == CHOOSE v \in levels : \A w \in levels : w <= v
            volume == combined_packet.volume
        IN /\ peak < MIN_VOLUME_THRESHOLD => volume = Zero
           /\ (peak >= MIN_VOLUME_THRESHOLD /\ peak >= floor) => volume = One
           /\ (peak >= MIN_VOLUME_THRESHOLD /\ peak < floor) => volume.n * floor = volume.d * peak
           /\ (peak = 500 /\ floor = 1000) => volume = Rat(1, 2)

C10_Witness ==
    /\ Fused
    /\ \A i \in DOMAIN buffer : buffer[i].volume <= 500
    /\ \E i \in DOMAIN buffer : buffer[i].volume = 500
    /\ \E k \in DOMAIN volume_history : volume_history[k] = 1000
    /\ combined_packet.volume = Rat(1, 2)

\* The loudest frame of a packet list, broker.py:203
PeakOf(packets) == SeqMax([i \in DOMAIN packets |-> packets[i].volume])

\* The last n entries of s
LastN(s, n) == IF Len(s) > n THEN SubSeq(s, Len(s) - n + 1, Len(s)) ELSE s

\* The raw peaks of the first n flushes, as a history of bounded length
PeaksOfFlushes(n) == LastN([k \in 1..n |-> PeakOf(flushes[k].packets)], VolumeHistoryMaxlen)

\* C11: the history a flush is normalized against holds the raw peaks of
\* the earlier flushes only, one entry per flush; the peak of the current
\* flush is added after its volume has been computed.
C11_HistoryHoldsEarlierPeaks ==
    /\ \A i \in DOMAIN flushes : flushes[i].history = PeaksOfFlushes(i - 1)
    /\ pc = "read" => volume_history = PeaksOfFlushes(Len(flushes))

\* C12: the volume of every published summary lies in [0, 1].
C12_VolumeInUnitInterval ==
    \A i \in DOMAIN published :
        /\ ~RatLess(published[i].volume, Zero)
        /\ ~RatLess(One, published[i].volume)

\* a summary whose raw peak is above everything the history still holds
C12_Witness ==
    /\ Fused
    /\ Len(published) = 1
    /\ PeakOf(buffer) > SeqMax(volume_history)
    /\ published[1].volume = One

C14_BoundedStepTowardTarget ==
    [][(pc = "gain" /\ volume_history' # <<>>
            /\ ~BelowThreshold(avg_volume_of(volume_history')))
        => LET target_gain == high_target_gain(avg_volume_of(volume_history'))
           IN /\ RatLeq(gain_multiplier', RatAdd(gain_multiplier, Rat(1, 100)))
              /\ RatLeq(RatSub(gain_multiplier, Rat(1, 100)), gain_multiplier')
              /\ RatLeq(target_gain, MAX_GAIN)
              /\ RatLess(gain_multiplier, target_gain)
                    => RatLeq(gain_multiplier, gain_multiplier')
                       /\ RatLeq(gain_multiplier', target_gain)
              /\ RatLeq(target_gain, gain_multiplier)
                    => RatLeq(target_gain, gain_multiplier')
                       /\ RatLeq(gain_multiplier', gain_multiplier)]_vars

\* the gain fell by max_change from MAX_GAIN - max_change toward the target
\* of a rolling average just above GAIN_THRESHOLD
C14_Witness ==
    /\ pc = "gain"
    /\ volume_history = <<40, 40>>
    /\ quiet_cycles = 0
    /\ gain_multiplier = Rat(78, 100)

\* a packet of fft_publisher.py without its gain_multiplier field
WithoutGain(packet) == [k \in DOMAIN packet \ {"gain_multiplier"} |-> packet[k]]

\* C15: two runs on the same frames that started with different gains
\* publish packets that agree in every field but gain_multiplier.
C15_GainNeverRescalesData ==
    (pc = "twin" /\ data_packet # None)
        => WithoutGain(data_packet) = WithoutGain(twin.data_packet)

\* the two runs published a kick with different gains
C15_Witness ==
    /\ pc = "twin"
    /\ cycles >= 2
    /\ data_packet.kick_detected
    /\ data_packet.gain_multiplier # twin.data_packet.gain_multiplier

\* C16: a failure of process_audio_buffer for one frame does not end the
\* pipeline: the frame is dropped and the loop goes on reading and flushing.
C16_AnalyzerFailureSurvived ==
    raised = "AnalyzerError"
        => /\ pc \in {"read", "check"}
           /\ resources = Resources

\* The frames that were part of a summary handed to publish_data
FramesSent == Flatten([i \in DOMAIN flushes |->
                          IF flushes[i].sent THEN flushes[i].packets ELSE <<>>])

\* C17: after KeyboardInterrupt a final flush has emptied the buffer, so
\* every frame appended is part of a summary handed to publish_data.
C17_FinalFlushOnInterrupt ==
    raised = "KeyboardInterrupt"
        => /\ buffer = <<>>
           /\ FramesSent = [j \in DOMAIN appended |-> appended[j].packet]

\* C18: once the main loop is left, by KeyboardInterrupt or by an exception
\* passing through, the sink connection and the frame source are released,
\* and nothing is published from then on.
C18_ReleasedOnEveryExit ==
    /\ [](raised # "none" => pc \in {"stopped", "crashed"} /\ resources = {})
    /\ [][raised # "none" => published' = published]_vars

\* the loop was left by an exception with frames buffered and summaries
\* published before
C18_Witness ==
    /\ pc = "crashed"
    /\ resources = {}
    /\ buffer # <<>>
    /\ published # <<>>

\* C19: when stream.read raises, the pipeline shuts down as on an abort
\* signal: the buffered frames are flushed, the resources are released and
\* the process stops cleanly instead of crashing.
C19_SourceFailureStopsCleanly ==
    raised = "OSError"
        => /\ pc = "stopped"
           /\ resources = {}
           /\ buffer = <<>>
           /\ FramesSent = [j \in DOMAIN appended |-> appended[j].packet]

\* The summaries the sink accepted: those of the flushes whose publish_data
\* met status 0
Delivered == LET ok == SelectSeq(flushes, LAMBDA f : f.sent /\ f.outcome = "ok")
             IN [i \in DOMAIN ok |-> ok[i].data]

\* C20: publish_data is called for a flush exactly when the flush has
\* packets; the sink holds the summaries whose delivery succeeded, once each
\* and in order (a failed one is neither retried nor queued again); the
\* frames of a flush never return to the buffer; after a failed delivery the
\* deadline is the flush's deadline plus FRAME_TIME and the loop goes on.
C20_PublishFailureContained ==
    /\ \A i \in DOMAIN flushes : flushes[i].sent <=> flushes[i].packets # <<>>
    /\ published = Delivered
    /\ Flatten([i \in DOMAIN flushes |-> flushes[i].packets]) \o buffer
         = [j \in DOMAIN appended |-> appended[j].packet]
    /\ \A i \in DOMAIN flushes :
          flushes[i].outcome # "ok"
            => /\ i < Len(flushes) => flushes[i + 1].deadline = flushes[i].deadline + FRAME_TIME
               /\ i = Len(flushes) => next_frame = flushes[i].deadline + FRAME_TIME
               /\ (i = Len(flushes) /\ pc = "read" /\ flushes[i].time = lastCheck)
                     => buffer = <<>> /\ raised = "none"

\* a delivery that raised and one that got a non-zero status, each followed
\* by the next flush; the third summary is the only one the sink has
C20_Witness ==
    /\ Len(flushes) = 3
    /\ flushes[1].outcome = "exception"
    /\ flushes[2].outcome = "status"
    /\ flushes[3].outcome = "ok"
    /\ published = <<flushes[3].data>>
    /\ pc = "read"

\* The frames handed to flush i: those appended after the flush before it.
FramesOfFlush(i) ==
    AppendedIn(IF i = 1 THEN -1 ELSE flushes[i - 1].time, flushes[i].time)

\* C21: a flush waits on its deadline only: when a frame is already buffered
\* before the deadline of a flush, the flush is made at that deadline,
\* whether or not the source has delivered another frame by then.
C21_FlushAtOwnDeadline ==
    ~Overran =>
        \A i \in DOMAIN flushes :
            (\E j \in FramesOfFlush(i) : appended[j].time < flushes[i].deadline)
                => flushes[i].time = flushes[i].deadline

\* The packets in another arrival order
Permuted(packets, perm) == [i \in DOMAIN packets |-> packets[perm[i]]]

\* The exchanges of two neighbours in 1..n.  Every reordering is a chain of
\* them, and every packet list is the buffer of some run.
Exchanges(n) ==
    {[k \in 1..n |-> IF k = i THEN i + 1 ELSE IF k = i + 1 THEN i ELSE k] :
        i \in 1..(n - 1)}

\* Two packets share the highest confidence and differ in the pitch value.
PitchTie(packets) ==
    \E i, j \in DOMAIN packets :
        /\ packets[i].pitch.confidence = packets[j].pitch.confidence
        /\ packets[i].pitch.value # packets[j].pitch.value
        /\ \A k \in DOMAIN packets :
              packets[k].pitch.confidence <= packets[i].pitch.confidence

\* C22: with the same volume history, combine_packets gives the same onset
\* flags, tempo flag, bpm, set of notes and volume when two neighbours of the
\* list change places, hence for every arrival order; the pitch differs
\* between two orders only when packets tie for the highest confidence.
C22_FusionIgnoresOrder ==
    Fused =>
        \A perm \in Exchanges(Len(buffer)), order \in Orders(PacketsOf(axis)) :
            LET other == combine_packets(Permuted(buffer, perm), volume_history, order)
            IN /\ \A m \in Methods : other[m] = combined_packet[m]
               /\ other.tempo_beat = combined_packet.tempo_beat
               /\ other.bpm = combined_packet.bpm
               /\ Range(other.notes) = Range(combined_packet.notes)
               /\ other.volume = combined_packet.volume
               /\ other.pitch # combined_packet.pitch => PitchTie(buffer)

\* three packets whose fused pitch changes with the arrival order
C22_Witness ==
    /\ Fused
    /\ Len(buffer) >= 3
    /\ \E i, j \in DOMAIN buffer : buffer[i] # buffer[j]
    /\ \E perm \in Exchanges(Len(buffer)) :
          combined_pitch(Permuted(buffer, perm)) # combined_packet.pitch

\* C23: the three frames of the scenario, delivered within one publish
\* interval, fuse into energy onset true, bpm (64 + 65) / 2, pitch
\* {440, 0.9}, notes {69, 81} and the volume the normalization gives for the
\* peak 0.05.
C23_ScenarioSummary ==
    (Fused /\ buffer = <<ScenarioA, ScenarioB, ScenarioC>>) =>
        /\ combined_packet.energy
        /\ \A m \in Methods \ {"energy"} : ~combined_packet[m]
        /\ combined_packet.bpm = Rat(129, 2)
        /\ combined_packet.pitch = [value |-> 440, confidence |-> 90]
        /\ Range(combined_packet.notes) = {69, 81}
        /\ combined_packet.volume
             = RatMin(One, Rat(50, SeqMax(Append(volume_history, MIN_VOLUME_THRESHOLD))))

\* the scenario's frames fused, after a run that began with an empty history
C23_Witness ==
    /\ Fused
    /\ axis = "scenario"
    /\ buffer = <<ScenarioA, ScenarioB, ScenarioC>>
    /\ volume_history = <<20, 50, 30>>
    /\ combined_packet.volume = One
    /\ published = <<combined_packet>>

\* C24: the summaries reach the sink in the order of their flushes, and each
\* carries a timestamp that is not smaller than the one published before it.
C24_TimestampedInOrder ==
    /\ published = Delivered
    /\ \A i \in DOMAIN published :
          /\ "timestamp" \in DOMAIN published[i]
          /\ i > 1 => published[i - 1].timestamp <= published[i].timestamp

\* The loudness of the packets of a list, in order
VolumesOf(packets) == [i \in DOMAIN packets |-> packets[i].volume]

\* C25: the loudness history of either program holds the most recent values
\* in arrival order, at most its capacity of them, the oldest being dropped
\* on overflow; a flush does not clear it, and in fft_publisher.py it is not
\* empty when the rolling average is computed.
C25_HistoryBoundedMostRecent ==
    /\ [](pc \in {"read", "check"}
            => volume_history
                 = LastN(VolumesOf([j \in DOMAIN appended |-> appended[j].packet]),
                         VolumeHistoryMaxlen))
    /\ [](pc \in {"fuse", "fused"}
            => \E prior \in PriorHistories(axis) :
                  volume_history = LastN(prior \o VolumesOf(buffer), VolumeHistoryMaxlen))
    /\ [](pc = "twin"
            => /\ Len(volume_history) <= MaxVolumeHistory
               /\ cycles > 0
                    => /\ volume_history # <<>>
                       /\ data_packet.avg_volume
                            = Rat(IntSum(volume_history), Len(volume_history)))
    /\ [][pc = "twin"
            => \E frame \in FftFrames :
                  volume_history'
                    = IF Len(volume_history) < MaxVolumeHistory
                      THEN Append(volume_history, frame.volume)
                      ELSE Append(Tail(volume_history), frame.volume)]_vars

\* more packets were analyzed than the history of broker.py keeps
C25_Witness ==
    /\ pc = "fused"
    /\ Len(buffer) > VolumeHistoryMaxlen
    /\ Len(volume_history) = VolumeHistoryMaxlen
    /\ volume_history # VolumesOf(buffer)
    /\ \E i, j \in DOMAIN volume_history : volume_history[i] # volume_history[j]

\* C26: the smoothed band energies are one value per band of FREQ_BANDS
\* (8), each in [0, 1]; every band energy calculate_band_energy returns is
\* in [0, 1], and a cycle replaces smoothed by 0.2 * smoothed + 0.8 * raw.
C26_SmoothedEnergyInUnitInterval ==
    /\ [](pc = "twin"
            => /\ DOMAIN smoothed_band_energy = 0..7
               /\ \A b \in 0..7 : /\ RatLeq(Zero, smoothed_band_energy[b])
                                  /\ RatLeq(smoothed_band_energy[b], One))
    /\ [][pc = "twin"
            => \E frame \in FftFrames :
                  LET raw == calculate_band_energy(frame.raw_energies)
                  IN \A b \in 0..7 :
                        /\ RatLeq(Zero, raw[b]) /\ RatLeq(raw[b], One)
                        /\ smoothed_band_energy'[b]
                             = RatAdd(RatMul(Rat(2, 10), smoothed_band_energy[b]),
                                      RatMul(Rat(8, 10), raw[b]))]_vars

\* after three cycles the high band has risen above the hi-hat threshold
\* and the bass is neither empty nor full
C26_Witness ==
    /\ pc = "twin"
    /\ cycles >= 3
    /\ RatLess(Rat(7, 10), smoothed_band_energy[6])
    /\ RatLess(Zero, smoothed_band_energy[0])
    /\ RatLess(smoothed_band_energy[0], One)

\* C27: the gain target does not fall when the rolling average rises: the
\* target for the average of this cycle is at most the target for the
\* average of the next cycle whenever the average does not fall.
C27_TargetMonotonic ==
    (pc = "gain" /\ volume_history # <<>>) =>
        \A volume \in GainVolumes :
            LET a == avg_volume_of(volume_history)
                b == avg_volume_of(fft_history_append(volume_history, volume))
            IN RatLeq(a, b) => RatLeq(target_gain_of(a), target_gain_of(b))

\* C28: whenever the main loop calls combine_packets, the packet list and
\* volume_history are both non-empty, the call neither raises nor returns
\* None, and the result is handed to publish_data.
C28_FlushHasFrameAndHistory ==
    \A i \in DOMAIN flushes :
        /\ flushes[i].packets # <<>>
        /\ flushes[i].history # <<>>
        /\ \E k \in DOMAIN flushes[i].history :
               flushes[i].history[k] = flushes[i].packets[Len(flushes[i].packets)].volume
        /\ flushes[i].data # None
        /\ flushes[i].data # TypeError
        /\ flushes[i].sent

C28_Witness ==
    /\ Len(flushes) >= 2
    /\ Len(flushes[1].packets) = 1
    /\ Len(flushes[2].packets) >= 2
    /\ Len(flushes[2].history) >= 3
    /\ flushes[2].data # None

\* C29: the number of flushes is at most the number of frames read and at
\* most the number of deadlines start + k*FRAME_TIME that have passed; a
\* step performs at most one flush, two flushes are separated by a read,
\* and each flush moves next_frame forward by exactly FRAME_TIME.
C29_FlushesBoundedByFramesAndDeadlines ==
    /\ [](axis = "loop" =>
            /\ Len(flushes) <= Len(appended)
            /\ Len(flushes) <= (now \div FRAME_TIME) + 1
            /\ next_frame = Len(flushes) * FRAME_TIME
            /\ \A i \in DOMAIN flushes :
                   /\ i <= (flushes[i].time \div FRAME_TIME) + 1
                   /\ flushes[i].deadline = (i - 1) * FRAME_TIME
                   /\ flushes[i].packets # <<>>)
    /\ [][(axis = "loop" /\ flushes' # flushes) =>
            /\ pc = "check" /\ pc' = "read"
            /\ flushes' = Append(flushes, flushes'[Len(flushes')])
            /\ next_frame' = next_frame + FRAME_TIME]_vars

C29_Witness ==
    /\ axis = "loop"
    /\ Len(flushes) = 2
    /\ Len(appended) = 3
    /\ now >= 2 * FRAME_TIME
    /\ next_frame = 2 * FRAME_TIME

\* C30: visualizer.py's main loop processes every summary the broker
\* publishes without raising; after a summary with bpm 0.0 the blink
\* transition still yields a next_transition_time.
C30_ViewerNeverRaises ==
    viewer.raised = "none"

====
